---- MODULE Spec2Model ----
(***************************************************************************)
(* PetMeds: the dose-event generation and reminder engine.                 *)
(*                                                                         *)
(* Time is counted in minutes since Monday 2024-01-01 00:00 (server clock, *)
(* no daylight-saving shifts).  A DATE column is a day index since then.   *)
(* The store is PostgreSQL: each pool.query is one atomic step, and the    *)
(* awaits between queries are the points where handlers interleave.        *)
(***************************************************************************)
EXTENDS Integers, Sequences, FiniteSets, TLC

VARIABLES
  now,        \* the server clock (new Date())
  meds,       \* table medications: id -> row
  events,     \* table medication_dose_events: set of rows
  logs,       \* table medication_log: set of rows
  fired,      \* the cron jobs that have fired at the instant now
  run,        \* generateDoseEvents invocations in flight: runner -> position
  completed,  \* window starts of the generateDoseEvents runs that returned
  conflicts,  \* INSERTs rejected by UNIQUE (medication_id, scheduled_time)
  resp,       \* the last HTTP response: route, status code, the :id it named
  sent,       \* notifications dispatched: <<kind, event id, user>> -> count
  budget      \* how many more operations of each kind the bounds allow

vars == <<now, meds, events, logs, fired, run, completed, conflicts, resp, sent, budget>>

----------------------------------------------------------------------------
(* Bounds of the model *)

MaxSweepDay == 1      \* sweeps start on days 0..MaxSweepDay
MaxRuns     == 3      \* generateDoseEvents invocations per behaviour
MaxSnooze   == 1      \* snooze requests per behaviour
MaxLog      == 1      \* log requests per behaviour
MaxTicks    == 10     \* five-minute clock steps while notifications are watched
NumMembers  == 1      \* caregivers in the household

(* Program constants *)

Hour            == 60          \* minutes
Day             == 24 * Hour
HorizonDays     == 30
SnoozeMinutes   == 15
ReminderLead    == 15
OverdueGrace    == 30
CronHour        == 2           \* the generation cron, '0 2 * * *'
OverdueEvery    == 5           \* the overdue cron, '*/5 * * * *'

Horizon == HorizonDays * Day
ClockStep == OverdueEvery      \* the clock is sampled at the overdue cron's instants

MedIds  == {1, 2}
Runners == {1, 2}
NoDate  == -1                  \* end_date IS NULL
NoLog   == 0                   \* taken_log_id IS NULL
NoTimes == << <<-1, -1>> >>    \* times_of_day IS NULL (<<>> is the empty array)

----------------------------------------------------------------------------
(* Calendar arithmetic of the JavaScript Date object *)

DateOf(t)    == t \div Day                 \* the calendar day holding instant t
TimeOfDay(t) == t % Day
GetDay(t)    == (DateOf(t) + 1) % 7        \* Date.getDay(): 0 = Sunday

IsLeap(y) == (y % 4 = 0) /\ ((y % 100 # 0) \/ (y % 400 = 0))

\* length of month mi, counted from January 2024 = 0
DaysInMonth(mi) ==
  LET y == 2024 + (mi \div 12)
      m == mi % 12
  IN  IF m = 1 THEN (IF IsLeap(y) THEN 29 ELSE 28)
      ELSE IF m \in {3, 5, 8, 10} THEN 30 ELSE 31

RECURSIVE MonthStart(_)
MonthStart(mi) == IF mi = 0 THEN 0 ELSE MonthStart(mi - 1) + DaysInMonth(mi - 1)

RECURSIVE MonthFrom(_, _)
MonthFrom(d, mi) == IF d < MonthStart(mi + 1) THEN mi ELSE MonthFrom(d, mi + 1)
GetMonth(t) == MonthFrom(DateOf(t), 0)
GetDate(t)  == DateOf(t) - MonthStart(GetMonth(t)) + 1

\* Date.setMonth(getMonth() + q): same day-of-month number in the target
\* month; a day number past the end of that month rolls into the next one
SetMonthPlus(t, q) ==
  (MonthStart(GetMonth(t) + q) + GetDate(t) - 1) * Day + TimeOfDay(t)

AddIntervalAsHours(t, qty, unit) == t + qty * Hour
AddInterval(t, qty, unit) ==
  CASE unit = "minutes" -> t + qty
    [] unit = "hours"   -> t + qty * Hour
    [] unit = "days"    -> t + qty * Day
    [] unit = "weeks"   -> t + qty * 7 * Day
    [] unit = "months"  -> SetMonthPlus(t, qty)
    [] OTHER            -> t + qty * Hour

----------------------------------------------------------------------------
(* The occurrence generators *)

\* the loop with the window end left out
RECURSIVE IntervalTimesExclusive(_, _, _, _)
IntervalTimesExclusive(currentTime, intervalQty, intervalUnit, endDate) ==
  IF currentTime < endDate
    THEN <<currentTime>> \o
         IntervalTimesExclusive(AddInterval(currentTime, intervalQty, intervalUnit),
                                intervalQty, intervalUnit, endDate)
    ELSE <<>>

RECURSIVE IntervalTimes(_, _, _, _)
IntervalTimes(currentTime, intervalQty, intervalUnit, endDate) ==
  IF currentTime <= endDate
    THEN <<currentTime>> \o
         IntervalTimes(AddInterval(currentTime, intervalQty, intervalUnit),
                       intervalQty, intervalUnit, endDate)
    ELSE <<>>

\* "HH:MM" on the calendar day of currentDate (setHours(h, m, 0, 0))
DoseTime(currentDate, tod) == DateOf(currentDate) * Day + tod[1] * Hour + tod[2]

AdjustedDaySundayFirst(t) == GetDay(t)
AdjustedDay(t) == IF GetDay(t) = 0 THEN 6 ELSE GetDay(t) - 1   \* Monday = 0

DayTimes(currentDate, timesOfDay, startDate, endDate) ==
  LET all == [i \in 1..Len(timesOfDay) |-> DoseTime(currentDate, timesOfDay[i])]
      Keep(t) == t >= startDate /\ t <= endDate
  IN  SelectSeq(all, Keep)

RECURSIVE FixedTimes(_, _, _, _, _)
FixedTimes(currentDate, timesOfDay, startDate, endDate, byWeekday) ==
  IF currentDate > endDate THEN <<>>
  ELSE IF byWeekday # {} /\ AdjustedDay(currentDate) \notin byWeekday
    THEN FixedTimes(currentDate + Day, timesOfDay, startDate, endDate, byWeekday)
    ELSE DayTimes(currentDate, timesOfDay, startDate, endDate) \o
         FixedTimes(currentDate + Day, timesOfDay, startDate, endDate, byWeekday)

\* the timestamps generateDoseEventsForMedication hands to
\* createDoseEventIfNotExists, in order, for one row of the medication list
OccurrencesOf(med, startDate, endDate) ==
  LET medStartDate == med.start_date * Day
      medEndDate   == med.end_date * Day
  IN  IF medStartDate > endDate \/ (med.end_date # NoDate /\ medEndDate < startDate)
        THEN <<>>
        ELSE LET generationStartDate ==
                   IF medStartDate > startDate THEN medStartDate ELSE startDate
             IN  IF med.times_of_day # NoTimes /\ Len(med.times_of_day) > 0
                   THEN FixedTimes(generationStartDate, med.times_of_day,
                                   generationStartDate, endDate, med.byweekday)
                   ELSE IntervalTimes(generationStartDate, med.interval_qty,
                                      med.interval_unit, endDate)

----------------------------------------------------------------------------
(* The store *)

\* does row e carry the key (medication_id, scheduled_time) = (m, t)
SameKeyNever(e, m, t) == e.med = m /\ e.time = t /\ FALSE
SameKey(e, m, t) == e.med = m /\ e.time = t

\* SELECT id FROM medication_dose_events
\*   WHERE medication_id = $1 AND scheduled_time = $2
ExistingRows(m, t) == {e \in events : SameKey(e, m, t)}

\* UNIQUE (medication_id, scheduled_time): would a row with key (m, t),
\* other than the row with id self, break the constraint
UniqueOff(m, t, self) == FALSE
UniqueViolation(m, t, self) == \E e \in events : e.id # self /\ SameKey(e, m, t)

\* INSERT INTO medication_dose_events (medication_id, scheduled_time, status)
\*   VALUES ($1, $2, 'due'); taken_log_id takes its default NULL
\* uuid_generate_v4(): an id no row of the table has.  The id names the
\* key the row was inserted with and how many rows were inserted with that
\* key before it (rows are never deleted one by one)
FreshId(m, t) == <<m, t, Cardinality({e \in events : e.id[1] = m /\ e.id[2] = t})>>

NewRowTaken(m, t) ==
  [id |-> FreshId(m, t), med |-> m, time |-> t, status |-> "taken", log |-> NoLog]
NewRow(m, t) ==
  [id |-> FreshId(m, t), med |-> m, time |-> t, status |-> "due", log |-> NoLog]

\* SELECT ... FROM medications m WHERE m.active = true, in id order
RECURSIVE ActiveFrom(_)
ActiveFrom(i) ==
  IF i \notin MedIds THEN <<>>
  ELSE (IF i \in DOMAIN meds /\ meds[i].active THEN <<i>> ELSE <<>>) \o
       ActiveFrom(i + 1)
ActiveMedications == ActiveFrom(1)

----------------------------------------------------------------------------
(* generateDoseEvents: the materialization sweep *)

IdleRun ==
  [pc |-> "idle", ws |-> 0, we |-> 0, queue |-> <<>>, inserted |-> 0, repeat |-> FALSE,
   spin |-> FALSE]

\* the while loop of generateIntervalDoseEvents is entered for this row and
\* adds an interval of nothing to currentTime on every pass
Stalls(med, startDate, endDate) ==
  /\ ~(med.start_date * Day > endDate)
  /\ ~(med.end_date # NoDate /\ med.end_date * Day < startDate)
  /\ ~(med.times_of_day # NoTimes /\ Len(med.times_of_day) > 0)
  /\ med.interval_qty = 0

\* currentTime at which the loop of a stalling row stays
StallTime(med, startDate) ==
  IF med.start_date * Day > startDate THEN med.start_date * Day ELSE startDate

\* some row of the list keeps the sweep in its loop
RECURSIVE Spinning(_, _, _)
Spinning(ids, startDate, endDate) ==
  /\ ids # <<>>
  /\ \/ Stalls(meds[Head(ids)], startDate, endDate)
     \/ Spinning(Tail(ids), startDate, endDate)

\* the calls of createDoseEventIfNotExists one sweep makes, in order: the
\* rows listed at the start of the sweep fix the schedule the sweep uses.
\* At a row that stalls the queue ends with the call the loop repeats, and
\* no later row is reached.
RECURSIVE SweepQueue(_, _, _)
SweepQueue(ids, startDate, endDate) ==
  IF ids = <<>> THEN <<>>
  ELSE LET m == Head(ids)
       IN  IF Stalls(meds[m], startDate, endDate)
             THEN << <<m, StallTime(meds[m], startDate)>> >>
             ELSE LET occ == OccurrencesOf(meds[m], startDate, endDate)
                  IN  [i \in 1..Len(occ) |-> <<m, occ[i]>>] \o
                      SweepQueue(Tail(ids), startDate, endDate)

\* the sweep moves on to its next createDoseEventIfNotExists call, or
\* returns; in a loop that stalls the next call is the same call again
AfterCall(r, ins) ==
  LET rest == Tail(run[r].queue)
  IN  IF rest = <<>> /\ run[r].spin
        THEN /\ run' = [run EXCEPT ![r] = [@ EXCEPT !.inserted = ins, !.pc = "check"]]
             /\ UNCHANGED completed
        ELSE /\ run' = [run EXCEPT ![r] =
                          [@ EXCEPT !.queue = rest, !.inserted = ins,
                                    !.pc = IF rest = <<>> THEN "idle" ELSE "check"]]
             /\ completed' = IF rest = <<>> THEN completed \cup {run[r].ws}
                                            ELSE completed

\* lines 106-125: list the active medications and call
\* generateDoseEventsForMedication(medication, startDate, endDate) for each
StartSweep(r, startDate, endDate) ==
  LET q == SweepQueue(ActiveMedications, startDate, endDate)
  IN  /\ run[r].pc = "idle"
      /\ budget.runs > 0
      /\ budget' = [budget EXCEPT !.runs = @ - 1]
      /\ run' = [run EXCEPT ![r] =
                   [pc |-> IF q = <<>> THEN "idle" ELSE "check",
                    ws |-> startDate, we |-> endDate,
                    queue |-> q, inserted |-> 0, repeat |-> startDate \in completed,
                    spin |-> Spinning(ActiveMedications, startDate, endDate)]]
      /\ completed' = IF q = <<>> THEN completed \cup {startDate} ELSE completed
      /\ UNCHANGED <<now, meds, events, logs, conflicts, resp, sent>>

\* lines 120-121: the window is [startDate, startDate + 30 days]
GenerateDoseEvents(r, startDate) == StartSweep(r, startDate, startDate + Horizon)

\* createDoseEventIfNotExists, the SELECT (lines 239-244)
CheckExisting(r) ==
  /\ run[r].pc = "check"
  /\ LET m == Head(run[r].queue)[1]
         t == Head(run[r].queue)[2]
     IN  IF ExistingRows(m, t) # {}
           THEN AfterCall(r, run[r].inserted)
           ELSE /\ run' = [run EXCEPT ![r].pc = "insert"]
                /\ UNCHANGED completed
  /\ UNCHANGED <<now, meds, events, logs, fired, conflicts, resp, sent, budget>>

\* createDoseEventIfNotExists, the INSERT (lines 246-253); a rejected
\* INSERT is caught and logged
InsertDoseEvent(r) ==
  /\ run[r].pc = "insert"
  /\ LET m == Head(run[r].queue)[1]
         t == Head(run[r].queue)[2]
     IN  IF UniqueViolation(m, t, <<>>)
           THEN /\ conflicts' = conflicts + 1
                /\ AfterCall(r, run[r].inserted)
                /\ UNCHANGED events
           ELSE /\ events' = events \cup {NewRow(m, t)}
                /\ AfterCall(r, run[r].inserted + 1)
                /\ UNCHANGED conflicts
  /\ UNCHANGED <<now, meds, logs, fired, resp, sent, budget>>

----------------------------------------------------------------------------
(* Medications the create route has stored *)
(* created_at 0: stored on 2024-01-01 00:00, before the first sweep *)

\* one dose every 20 days, from day 0 on
EveryTwentyDays ==
  [active |-> TRUE, prn |-> FALSE, interval_qty |-> 20, interval_unit |-> "days",
   times_of_day |-> NoTimes, byweekday |-> {}, start_date |-> 0, end_date |-> NoDate,
   created_at |-> 0]
\* 08:00 and 08:15 on Mondays, from Monday 2024-01-29 on
MondayMornings ==
  [active |-> TRUE, prn |-> FALSE, interval_qty |-> 1, interval_unit |-> "days",
   times_of_day |-> << <<8, 0>>, <<8, 15>> >>, byweekday |-> {0},
   start_date |-> 28, end_date |-> NoDate,
   created_at |-> 0]
\* given on demand only; the interval columns are NOT NULL and hold a value
AsNeeded ==
  [active |-> TRUE, prn |-> TRUE, interval_qty |-> 1, interval_unit |-> "months",
   times_of_day |-> NoTimes, byweekday |-> {}, start_date |-> 0, end_date |-> NoDate,
   created_at |-> 0]
\* deactivated through the update route
Stopped == [EveryTwentyDays EXCEPT !.active = FALSE]

MedConfigs == {EveryTwentyDays, MondayMornings, AsNeeded, Stopped}

\* the medications table: one scheduled medication and one other
MedTables ==
  {f \in [MedIds -> MedConfigs] :
     /\ f[1] \in {EveryTwentyDays, MondayMornings}
     /\ f[2] \in {AsNeeded, Stopped}}

NoResp == [op |-> "none", code |-> 0, id |-> <<0, 0, 0>>]

Init ==
  /\ now = CronHour * Hour
  /\ meds \in MedTables
  /\ events = {}
  /\ logs = {}
  /\ fired = {}
  /\ run = [r \in Runners |-> IdleRun]
  /\ completed = {}
  /\ conflicts = 0
  /\ resp = NoResp
  /\ sent = [k \in {} |-> 0]
  /\ budget = [runs |-> MaxRuns, snooze |-> MaxSnooze, log |-> MaxLog, edit |-> 0,
              fail |-> 0]

----------------------------------------------------------------------------
(* Materialization on its own: invocations of the sweep at chosen instants, *)
(* two of which may be in flight at once                                    *)

SweepInstants == {d * Day + CronHour * Hour : d \in 0..MaxSweepDay}

Materialize(r) ==
  /\ \E t \in SweepInstants : GenerateDoseEvents(r, t)
  /\ UNCHANGED fired

NextMat ==
  \/ \E r \in Runners : Materialize(r)
  \/ \E r \in Runners : CheckExisting(r)
  \/ \E r \in Runners : InsertDoseEvent(r)

SpecMat == Init /\ [][NextMat]_vars

----------------------------------------------------------------------------
(* The routes *)

EventIds == {e.id : e \in events}
EventOf(id) == CHOOSE e \in events : e.id = id
UnknownId == <<0, 0, 0>>

\* POST /agenda/:id/snooze.  The access query finds the row through its
\* medication's household; the UPDATE names the row by id alone.  An UPDATE
\* the unique constraint rejects throws, and the catch answers 500.
SnoozeToHalfHour(e) == e.time + 2 * SnoozeMinutes
SnoozeTo(e) == e.time + SnoozeMinutes

Snooze(id, member) ==
  /\ budget.snooze > 0
  /\ budget' = [budget EXCEPT !.snooze = @ - 1]
  /\ IF ~member \/ id \notin EventIds
       THEN /\ resp' = [op |-> "snooze", code |-> 403, id |-> id]
            /\ UNCHANGED events
       ELSE LET e == EventOf(id)
            IN  IF UniqueViolation(e.med, SnoozeTo(e), e.id)
                  THEN /\ resp' = [op |-> "snooze", code |-> 500, id |-> id]
                       /\ UNCHANGED events
                  ELSE /\ events' = (events \ {e}) \cup {[e EXCEPT !.time = SnoozeTo(e)]}
                       /\ resp' = [op |-> "snooze", code |-> 200, id |-> id]
  /\ UNCHANGED <<now, meds, logs, fired, run, completed, conflicts, sent>>

\* POST /medications/:id/log.  The INSERT into medication_log and the UPDATE
\* of medication_dose_events are two statements outside any transaction.
\* The UPDATE carries a LIMIT clause, which PostgreSQL's UPDATE does not
\* have: the server rejects the statement and the catch answers 500.  A
\* store that accepts the clause updates one of the matching rows.  Both
\* outcomes are modelled.
NewLog(m, at) == [id |-> Cardinality(logs) + 1, med |-> m, time |-> at]

\* WHERE medication_id = $2 AND scheduled_time::date = $3::date AND status = 'due'
LogMatches(m, at) ==
  {e \in events : e.med = m /\ DateOf(e.time) = DateOf(at) /\ e.status = "due"}

LogDose(m, at, member) ==
  /\ budget.log > 0
  /\ budget' = [budget EXCEPT !.log = @ - 1]
  /\ IF ~member
       THEN /\ resp' = [op |-> "log", code |-> 404, id |-> <<m, 0, 0>>]
            /\ UNCHANGED <<logs, events>>
       ELSE /\ logs' = logs \cup {NewLog(m, at)}
            /\ \/ /\ resp' = [op |-> "log", code |-> 500, id |-> <<m, 0, 0>>]
                  /\ UNCHANGED events
               \/ /\ resp' = [op |-> "log", code |-> 201, id |-> <<m, 0, 0>>]
                  /\ IF LogMatches(m, at) = {}
                       THEN UNCHANGED events
                       ELSE \E e \in LogMatches(m, at) :
                              events' = (events \ {e}) \cup
                                {[e EXCEPT !.status = "taken", !.log = NewLog(m, at).id]}
  /\ UNCHANGED <<now, meds, fired, run, completed, conflicts, sent>>

\* the administration times callers report: shortly after a scheduled dose
LogDelay == 5
AdminTimes(m) == {e.time + LogDelay : e \in {x \in events : x.med = m}}

\* the requests the routes receive
SnoozeRequest ==
  \E id \in EventIds \cup {UnknownId}, member \in BOOLEAN : Snooze(id, member)

LogRequest ==
  \E m \in MedIds, member \in BOOLEAN : \E at \in AdminTimes(m) : LogDose(m, at, member)

----------------------------------------------------------------------------
(* The server: the daily generation cron and the routes *)

\* cron '0 2 * * *'
CronGenerate ==
  /\ TimeOfDay(now) = CronHour * Hour
  /\ "generate" \notin fired
  /\ fired' = fired \cup {"generate"}
  /\ GenerateDoseEvents(1, now)

\* the clock reaches the next day's cron instant
NextDay ==
  /\ "generate" \in fired
  /\ run[1].pc = "idle"
  /\ DateOf(now) < MaxSweepDay
  /\ now' = now + Day
  /\ fired' = {}
  /\ UNCHANGED <<meds, events, logs, run, completed, conflicts, resp, sent, budget>>

Next ==
  \/ CronGenerate
  \/ CheckExisting(1)
  \/ InsertDoseEvent(1)
  \/ NextDay
  \/ SnoozeRequest
  \/ LogRequest

Spec == Init /\ [][Next]_vars

----------------------------------------------------------------------------
(* The notification sweeps *)

Members == 1..NumMembers      \* household_members rows with unexpired access

\* one more dispatch for each key of K
Bump(s, K) ==
  [k \in (DOMAIN s) \cup K |->
     (IF k \in DOMAIN s THEN s[k] ELSE 0) + (IF k \in K THEN 1 ELSE 0)]

\* the joined rows of the reminder query, had the query also left out the
\* dose events a reminder was dispatched for; the query has no such condition
ReminderRowsOnce ==
  {e \in events : /\ e.status = "due"
                  /\ e.time >= now /\ e.time <= now + ReminderLead
                  /\ meds[e.med].active
                  /\ ~\E k \in DOMAIN sent : k[1] = "reminder" /\ k[2] = e.id}

\* WHERE mde.status = 'due' AND mde.scheduled_time BETWEEN $1 AND $2
\*   AND m.active = true
ReminderRows ==
  {e \in events : /\ e.status = "due"
                  /\ e.time >= now /\ e.time <= now + ReminderLead
                  /\ meds[e.med].active}

\* WHERE mde.status = 'due' AND mde.scheduled_time < $1 AND m.active = true
OverdueRows ==
  {e \in events : /\ e.status = "due"
                  /\ e.time < now - OverdueGrace
                  /\ meds[e.med].active}

\* the calls of sendMedicationReminder or sendMedicationOverdue a sweep
\* makes for the joined rows keys when the transport fails for those of
\* failed: sendPushNotification catches every error, so the loop goes on
DispatchesUntilFailure(keys, failed) == IF failed = {} THEN keys ELSE failed
Dispatches(keys, failed) == keys

\* the record of a delivery that webpush.sendNotification rejected
Failure(k) ==
  <<IF k[1] = "reminder" THEN "reminder-failed" ELSE "overdue-failed", k[2], k[3]>>

\* one sweep over the joined rows keys; the transport fails for any of them
Notify(keys) ==
  \E failed \in SUBSET keys :
    /\ failed # {} => budget.fail > 0
    /\ budget' = IF failed # {} THEN [budget EXCEPT !.fail = @ - 1] ELSE budget
    /\ sent' = Bump(Bump(sent, Dispatches(keys, failed)),
                    {Failure(k) : k \in failed})

ReminderKeys == {<<"reminder", e.id, u>> : e \in ReminderRows, u \in Members}
OverdueKeys == {<<"overdue", e.id, u>> : e \in OverdueRows, u \in Members}

\* cron '* * * * *': one sendMedicationReminder per joined row
CheckAndSendReminders ==
  /\ "reminders" \notin fired
  /\ fired' = fired \cup {"reminders"}
  /\ Notify(ReminderKeys)
  /\ UNCHANGED <<now, meds, events, logs, run, completed, conflicts, resp>>

\* cron '*/5 * * * *': one sendMedicationOverdue per joined row
CheckAndSendOverdueNotifications ==
  /\ now % OverdueEvery = 0
  /\ "overdue" \notin fired
  /\ fired' = fired \cup {"overdue"}
  /\ Notify(OverdueKeys)
  /\ UNCHANGED <<now, meds, events, logs, run, completed, conflicts, resp>>

\* the cron jobs due at the instant now
CronsDue ==
  {"reminders"} \cup (IF now % OverdueEvery = 0 THEN {"overdue"} ELSE {})
                \cup (IF TimeOfDay(now) = CronHour * Hour THEN {"generate"} ELSE {})

\* the clock is sampled every five minutes, from the first generation cron on
Tick ==
  /\ fired = CronsDue
  /\ run[1].pc = "idle"
  /\ now + ClockStep <= CronHour * Hour + MaxTicks * ClockStep
  /\ now' = now + ClockStep
  /\ fired' = {}
  /\ UNCHANGED <<meds, events, logs, run, completed, conflicts, resp, sent, budget>>

\* 02:10 on Mondays, from Monday 2024-01-01 on
MondayEarly ==
  [active |-> TRUE, prn |-> FALSE, interval_qty |-> 1, interval_unit |-> "days",
   times_of_day |-> << <<2, 10>> >>, byweekday |-> {0},
   start_date |-> 0, end_date |-> NoDate,
   created_at |-> 0]

NotifyTables ==
  {f \in [MedIds -> MedConfigs \cup {MondayEarly}] :
     /\ f[1] \in {EveryTwentyDays, MondayEarly}
     /\ f[2] \in {AsNeeded, Stopped}}

InitNotify ==
  /\ now = CronHour * Hour
  /\ meds \in NotifyTables
  /\ events = {}
  /\ logs = {}
  /\ fired = {}
  /\ run = [r \in Runners |-> IdleRun]
  /\ completed = {}
  /\ conflicts = 0
  /\ resp = NoResp
  /\ sent = [k \in {} |-> 0]
  /\ budget = [runs |-> MaxRuns, snooze |-> MaxSnooze, log |-> MaxLog, edit |-> 0,
              fail |-> 0]

NextNotify ==
  \/ CronGenerate
  \/ CheckExisting(1)
  \/ InsertDoseEvent(1)
  \/ CheckAndSendReminders
  \/ CheckAndSendOverdueNotifications
  \/ Tick
  \/ SnoozeRequest

SpecNotify == InitNotify /\ [][NextNotify]_vars

----------------------------------------------------------------------------
(* Repeated logging: one sweep, then logged doses for its dose events *)

MaxRelog == 2         \* log requests per behaviour when logging is repeated

InitLog ==
  /\ now = CronHour * Hour
  /\ meds \in MedTables
  /\ events = {}
  /\ logs = {}
  /\ fired = {}
  /\ run = [r \in Runners |-> IdleRun]
  /\ completed = {}
  /\ conflicts = 0
  /\ resp = NoResp
  /\ sent = [k \in {} |-> 0]
  /\ budget = [runs |-> MaxRuns, snooze |-> 0, log |-> MaxRelog, edit |-> 0,
              fail |-> 0]

NextLog ==
  \/ CronGenerate
  \/ CheckExisting(1)
  \/ InsertDoseEvent(1)
  \/ LogRequest

SpecLog == InitLog /\ [][NextLog]_vars

----------------------------------------------------------------------------
(* The generator on its own: one sweep over a chosen window, for schedules *)
(* of every kind                                                           *)

GenRuns == 1          \* sweeps per behaviour when the generator is studied

\* every 8 hours, for life
EightHourly ==
  [active |-> TRUE, prn |-> FALSE, interval_qty |-> 8, interval_unit |-> "hours",
   times_of_day |-> NoTimes, byweekday |-> {}, start_date |-> 0, end_date |-> NoDate,
   created_at |-> 0]
\* every 8 hours from 2024-01-01 to 2024-01-02
ShortCourse == [EightHourly EXCEPT !.end_date = 1]
\* every 720 minutes, from 2024-01-03 on
HalfDaily ==
  [active |-> TRUE, prn |-> FALSE, interval_qty |-> 720, interval_unit |-> "minutes",
   times_of_day |-> NoTimes, byweekday |-> {}, start_date |-> 2, end_date |-> NoDate,
   created_at |-> 0]
\* every 2 weeks
Fortnightly ==
  [active |-> TRUE, prn |-> FALSE, interval_qty |-> 2, interval_unit |-> "weeks",
   times_of_day |-> NoTimes, byweekday |-> {}, start_date |-> 0, end_date |-> NoDate,
   created_at |-> 0]
\* once a month
Monthly ==
  [active |-> TRUE, prn |-> FALSE, interval_qty |-> 1, interval_unit |-> "months",
   times_of_day |-> NoTimes, byweekday |-> {}, start_date |-> 0, end_date |-> NoDate,
   created_at |-> 0]
\* 08:00 and 20:00 on Mondays, Wednesdays and Fridays
MonWedFri ==
  [active |-> TRUE, prn |-> FALSE, interval_qty |-> 1, interval_unit |-> "days",
   times_of_day |-> << <<8, 0>>, <<20, 0>> >>, byweekday |-> {0, 2, 4},
   start_date |-> 0, end_date |-> NoDate,
   created_at |-> 0]
\* 01:00 and 13:00 every day, from 2024-01-03 on
TwiceDaily ==
  [active |-> TRUE, prn |-> FALSE, interval_qty |-> 1, interval_unit |-> "days",
   times_of_day |-> << <<1, 0>>, <<13, 0>> >>, byweekday |-> {},
   start_date |-> 2, end_date |-> NoDate,
   created_at |-> 0]
\* 09:30 at weekends, first given on 2024-03-15
Weekends ==
  [active |-> TRUE, prn |-> FALSE, interval_qty |-> 1, interval_unit |-> "days",
   times_of_day |-> << <<9, 30>> >>, byweekday |-> {5, 6},
   start_date |-> 74, end_date |-> NoDate,
   created_at |-> 0]
\* 09:30 at weekends, from 2024-01-01 on
WeekendsNow == [Weekends EXCEPT !.start_date = 0]

GenSchedules ==
  {EightHourly, ShortCourse, HalfDaily, Fortnightly, Monthly, EveryTwentyDays,
   MonWedFri, TwiceDaily, Weekends, WeekendsNow}

GenTables ==
  {f \in [MedIds -> GenSchedules \cup {AsNeeded, Stopped}] :
     f[1] \in GenSchedules /\ f[2] \in {AsNeeded, Stopped}}

\* window starts: midnight and the cron instant of 2024-01-01, the cron
\* instants of 2024-01-31 and 2024-02-01
GenStarts == {0, CronHour * Hour, 30 * Day + CronHour * Hour, 31 * Day + CronHour * Hour}
\* window lengths in days: a day, a week, the horizon
GenWindowDays == {1, 7, HorizonDays}

InitGen ==
  /\ now = CronHour * Hour
  /\ meds \in GenTables
  /\ events = {}
  /\ logs = {}
  /\ fired = {}
  /\ run = [r \in Runners |-> IdleRun]
  /\ completed = {}
  /\ conflicts = 0
  /\ resp = NoResp
  /\ sent = [k \in {} |-> 0]
  /\ budget = [runs |-> GenRuns, snooze |-> 0, log |-> 0, edit |-> 0,
              fail |-> 0]

\* generateDoseEventsForMedication(medication, startDate, endDate) for every
\* listed medication, over a window of the caller's choice
GenerateWindow ==
  /\ \E startDate \in GenStarts, days \in GenWindowDays :
        StartSweep(1, startDate, startDate + days * Day)
  /\ UNCHANGED fired

NextGen ==
  \/ GenerateWindow
  \/ CheckExisting(1)
  \/ InsertDoseEvent(1)

SpecGen == InitGen /\ [][NextGen]_vars

----------------------------------------------------------------------------
(* The medication routes: create and update, next to the daily sweep *)

MaxEdits == 2         \* create and update requests per behaviour

\* gen_random id of the INSERT: an id no row of the table has
FreeMedIds == MedIds \ DOMAIN meds

\* a schedule on which the interval loop never advances
NonAdvancing(row) ==
  /\ ~(row.times_of_day # NoTimes /\ Len(row.times_of_day) > 0)
  /\ row.interval_qty < 1

\* POST /medications.  The only check on the schedule fields is that
\* interval_qty and interval_unit are truthy; times_of_day, byweekday and
\* end_date are stored as sent, NULL when absent.  The body is written as
\* the row it asks for; active and created_at take their column defaults.
CreateMedication(body, member) ==
  /\ budget.edit > 0
  /\ FreeMedIds # {}
  /\ budget' = [budget EXCEPT !.edit = @ - 1]
  /\ LET id == CHOOSE i \in FreeMedIds : \A j \in FreeMedIds : i <= j
     IN  IF body.interval_qty = 0
           THEN /\ resp' = [op |-> "create", code |-> 400, id |-> <<id, 0, 0>>]
                /\ UNCHANGED meds
           ELSE IF ~member
             THEN /\ resp' = [op |-> "create", code |-> 403, id |-> <<id, 0, 0>>]
                  /\ UNCHANGED meds
             ELSE /\ meds' = [i \in DOMAIN meds \cup {id} |->
                                IF i = id
                                  THEN [body EXCEPT !.active = TRUE,
                                                    !.created_at = now]
                                  ELSE meds[i]]
                  /\ resp' = [op |-> "create", code |-> 201, id |-> <<id, 0, 0>>]
  /\ UNCHANGED <<now, events, logs, fired, run, completed, conflicts, sent>>

\* the row after UPDATE medications SET <the fields the body names>
Patched(row, patch) ==
  [f \in DOMAIN row |-> IF f \in patch.fields THEN patch.values[f] ELSE row[f]]

\* the dose events after the UPDATE of medications: the statement names no
\* other table, and the foreign key cascades on DELETE only
EventsAfterUpdateCascade(m) == {e \in events : e.med # m}
EventsAfterUpdate(m) == events

\* PUT /medications/:id.  Every field the body names goes into the UPDATE
\* as sent; nothing is validated.
UpdateMedication(m, patch, member) ==
  /\ budget.edit > 0
  /\ budget' = [budget EXCEPT !.edit = @ - 1]
  /\ IF m \notin DOMAIN meds \/ ~member
       THEN /\ resp' = [op |-> "update", code |-> 404, id |-> <<m, 0, 0>>]
            /\ UNCHANGED <<meds, events>>
       ELSE IF patch.fields = {}
         THEN /\ resp' = [op |-> "update", code |-> 400, id |-> <<m, 0, 0>>]
              /\ UNCHANGED <<meds, events>>
         ELSE /\ meds' = [meds EXCEPT ![m] = Patched(meds[m], patch)]
              /\ events' = EventsAfterUpdate(m)
              /\ resp' = [op |-> "update", code |-> 200, id |-> <<m, 0, 0>>]
  /\ UNCHANGED <<now, logs, fired, run, completed, conflicts, sent>>

\* request bodies of the create route
WeeklyBody ==
  [active |-> TRUE, prn |-> FALSE, interval_qty |-> 3, interval_unit |-> "weeks",
   times_of_day |-> NoTimes, byweekday |-> {}, start_date |-> 0, end_date |-> NoDate,
   created_at |-> 0]
\* "times_of_day": []
EmptyTimesBody == [WeeklyBody EXCEPT !.times_of_day = <<>>]
\* "interval_qty": 0
ZeroQuantityBody == [WeeklyBody EXCEPT !.interval_qty = 0]
\* "interval_qty": -1, with 09:00 on Tuesdays from 2024-01-23 to 2024-01-09
BackwardsBody ==
  [active |-> TRUE, prn |-> FALSE, interval_qty |-> -1, interval_unit |-> "days",
   times_of_day |-> << <<9, 0>> >>, byweekday |-> {1}, start_date |-> 22, end_date |-> 8,
   created_at |-> 0]
CreateBodies == {WeeklyBody, EmptyTimesBody, ZeroQuantityBody, BackwardsBody}

\* request bodies of the update route: the fields named, and their values
Patch(fields, values) == [fields |-> fields, values |-> values]
Deactivate     == Patch({"active"}, Stopped)
NoFields       == Patch({}, Stopped)
ZeroQuantity   == Patch({"interval_qty"}, ZeroQuantityBody)
EndBeforeStart == Patch({"start_date", "end_date"}, BackwardsBody)
EmptyTimes     == Patch({"times_of_day"}, EmptyTimesBody)
Reschedule     == Patch({"interval_qty", "interval_unit", "times_of_day"}, WeeklyBody)
UpdateBodies ==
  {Deactivate, NoFields, ZeroQuantity, EndBeforeStart, EmptyTimes, Reschedule}

\* the requests the routes receive; requests that would leave a schedule on
\* which the interval loop never advances are left to the study of the
\* sweep's termination
CreateRequest ==
  \E body \in CreateBodies, member \in BOOLEAN :
    ~NonAdvancing(body) /\ CreateMedication(body, member)

UpdateRequest ==
  \E m \in MedIds, patch \in UpdateBodies, member \in BOOLEAN :
    /\ m \in DOMAIN meds => ~NonAdvancing(Patched(meds[m], patch))
    /\ UpdateMedication(m, patch, member)

EditTables ==
  {f \in [{1} -> MedConfigs] : f[1] \in {EveryTwentyDays, MondayMornings}}

InitEdit ==
  /\ now = CronHour * Hour
  /\ meds \in EditTables
  /\ events = {}
  /\ logs = {}
  /\ fired = {}
  /\ run = [r \in Runners |-> IdleRun]
  /\ completed = {}
  /\ conflicts = 0
  /\ resp = NoResp
  /\ sent = [k \in {} |-> 0]
  /\ budget = [runs |-> MaxRuns, snooze |-> 0, log |-> 0, edit |-> MaxEdits,
              fail |-> 0]

NextEdit ==
  \/ CronGenerate
  \/ CheckExisting(1)
  \/ InsertDoseEvent(1)
  \/ NextDay
  \/ CreateRequest
  \/ UpdateRequest

SpecEdit == InitEdit /\ [][NextEdit]_vars

----------------------------------------------------------------------------
(* A medication created while the server runs: the create route, the crons *)
(* of the day and the clock                                                *)

\* request bodies: a dose at 02:10 on Mondays, and one every three weeks
RunwayBodies == {MondayEarly, WeeklyBody}

RunwayRequest ==
  \E body \in RunwayBodies, member \in BOOLEAN : CreateMedication(body, member)

InitRunway ==
  /\ now = CronHour * Hour
  /\ meds \in EditTables
  /\ events = {}
  /\ logs = {}
  /\ fired = {}
  /\ run = [r \in Runners |-> IdleRun]
  /\ completed = {}
  /\ conflicts = 0
  /\ resp = NoResp
  /\ sent = [k \in {} |-> 0]
  /\ budget = [runs |-> MaxRuns, snooze |-> 0, log |-> 0, edit |-> MaxEdits,
              fail |-> 0]

NextRunway ==
  \/ CronGenerate
  \/ CheckExisting(1)
  \/ InsertDoseEvent(1)
  \/ CheckAndSendReminders
  \/ CheckAndSendOverdueNotifications
  \/ Tick
  \/ RunwayRequest

SpecRunway == InitRunway /\ [][NextRunway]_vars

----------------------------------------------------------------------------
(* Notifications next to the routes that move what the sweeps read: snooze *)
(* and deactivation through the update route                               *)

MaxStops == 1         \* deactivation requests per behaviour

DeactivateRequest ==
  \E m \in MedIds, member \in BOOLEAN : UpdateMedication(m, Deactivate, member)

InitRemind ==
  /\ now = CronHour * Hour
  /\ meds \in NotifyTables
  /\ events = {}
  /\ logs = {}
  /\ fired = {}
  /\ run = [r \in Runners |-> IdleRun]
  /\ completed = {}
  /\ conflicts = 0
  /\ resp = NoResp
  /\ sent = [k \in {} |-> 0]
  /\ budget = [runs |-> MaxRuns, snooze |-> MaxSnooze, log |-> 0, edit |-> MaxStops,
              fail |-> 0]

NextRemind ==
  \/ CronGenerate
  \/ CheckExisting(1)
  \/ InsertDoseEvent(1)
  \/ CheckAndSendReminders
  \/ CheckAndSendOverdueNotifications
  \/ Tick
  \/ SnoozeRequest
  \/ DeactivateRequest

SpecRemind == InitRemind /\ [][NextRemind]_vars

----------------------------------------------------------------------------
(* Notifications whose delivery fails *)

MaxFailures == 1      \* sweeps with a rejected delivery per behaviour

InitFail ==
  /\ now = CronHour * Hour
  /\ meds \in NotifyTables
  /\ events = {}
  /\ logs = {}
  /\ fired = {}
  /\ run = [r \in Runners |-> IdleRun]
  /\ completed = {}
  /\ conflicts = 0
  /\ resp = NoResp
  /\ sent = [k \in {} |-> 0]
  /\ budget = [runs |-> MaxRuns, snooze |-> 0, log |-> 0, edit |-> 0,
              fail |-> MaxFailures]

NextFail ==
  \/ CronGenerate
  \/ CheckExisting(1)
  \/ InsertDoseEvent(1)
  \/ CheckAndSendReminders
  \/ CheckAndSendOverdueNotifications
  \/ Tick

SpecFail == InitFail /\ [][NextFail]_vars

----------------------------------------------------------------------------
(* A sweep during which queries of createDoseEventIfNotExists are rejected *)

\* the medications for whose dose events a query may be rejected
FailingMeds == {1}

\* the error leaves the sweep, which returns at once
AbortSweep(r) ==
  /\ run' = [run EXCEPT ![r] = [@ EXCEPT !.queue = <<>>, !.pc = "idle"]]
  /\ completed' = completed \cup {run[r].ws}

\* lines 251-253: the catch block of createDoseEventIfNotExists logs the
\* error and the call returns; the loops of the sweep go on
AfterError(r) == AfterCall(r, run[r].inserted)

\* the SELECT or the INSERT of createDoseEventIfNotExists is rejected
CallFails(r) ==
  /\ run[r].pc \in {"check", "insert"}
  /\ Head(run[r].queue)[1] \in FailingMeds
  /\ budget.fail > 0
  /\ budget' = [budget EXCEPT !.fail = @ - 1]
  /\ AfterError(r)
  /\ UNCHANGED <<now, meds, events, logs, fired, conflicts, resp, sent>>

InitCatch ==
  /\ now = CronHour * Hour
  /\ meds \in MedTables \cup NotifyTables
  /\ events = {}
  /\ logs = {}
  /\ fired = {}
  /\ run = [r \in Runners |-> IdleRun]
  /\ completed = {}
  /\ conflicts = 0
  /\ resp = NoResp
  /\ sent = [k \in {} |-> 0]
  /\ budget = [runs |-> MaxRuns, snooze |-> 0, log |-> 0, edit |-> 0,
              fail |-> MaxFailures]

NextCatch ==
  \/ CronGenerate
  \/ CheckExisting(1)
  \/ InsertDoseEvent(1)
  \/ CallFails(1)
  \/ NextDay

SpecCatch == InitCatch /\ [][NextCatch]_vars

----------------------------------------------------------------------------
(* The daily sweep over schedules the update route has rewritten, with the *)
(* sweep taking its steps whenever it has one to take                      *)

\* PUT /medications/:id with "interval_qty": 0, or with a schedule of one
\* dose every three weeks
RewriteRequest ==
  \E m \in MedIds, patch \in {ZeroQuantity, Reschedule}, member \in BOOLEAN :
    UpdateMedication(m, patch, member)

InitHalt ==
  /\ now = CronHour * Hour
  /\ meds \in MedTables
  /\ events = {}
  /\ logs = {}
  /\ fired = {}
  /\ run = [r \in Runners |-> IdleRun]
  /\ completed = {}
  /\ conflicts = 0
  /\ resp = NoResp
  /\ sent = [k \in {} |-> 0]
  /\ budget = [runs |-> MaxRuns, snooze |-> 0, log |-> 0, edit |-> MaxEdits,
              fail |-> 0]

NextHalt ==
  \/ CronGenerate
  \/ CheckExisting(1)
  \/ InsertDoseEvent(1)
  \/ NextDay
  \/ RewriteRequest

\* every await of the sweep resolves: a started query is answered
SpecHalt ==
  /\ InitHalt /\ [][NextHalt]_vars
  /\ WF_vars(CheckExisting(1)) /\ WF_vars(InsertDoseEvent(1))

----------------------------------------------------------------------------
(* Properties *)

\* rows of the table with a given medication and scheduled time
RowsAt(m, t) == {e \in events : e.med = m /\ e.time = t}

\* the keys one completed sweep with window start ws accounts for
SweepKeys(ws) ==
  LET q == SweepQueue(ActiveMedications, ws, ws + Horizon)
  IN  {q[i] : i \in 1..Len(q)}

\* C1: a materialization run for a medication list and window that an
\* earlier run has already gone through to the end inserts no dose event:
\* running twice leaves the set of dose events that running once leaves.
C1_SecondRunInsertsNothing ==
  \A r \in Runners : run[r].repeat => run[r].inserted = 0

\* a second run over a window whose first run created dose events has returned
C1_Witness ==
  \E r \in Runners :
    /\ run[r].repeat /\ run[r].pc = "idle"
    /\ SweepKeys(run[r].ws) # {}
    /\ \A k \in SweepKeys(run[r].ws) : RowsAt(k[1], k[2]) # {}

\* C2: no two dose events of one medication have the same scheduledTime,
\* whatever the interleaving of sweeps, snoozes and logged doses.
C2_UniqueScheduledTime ==
  \A e1, e2 \in events :
    (e1.med = e2.med /\ e1.time = e2.time) => e1 = e2

\* a sweep, a logged dose and a snooze have acted, and the snooze aimed at
\* an instant another dose event of the medication holds
C2_Witness ==
  /\ resp.op = "snooze" /\ resp.code = 500
  /\ logs # {}
  /\ \E e \in events : e.status = "taken"

\* C3: when the runs that interleave query by query have all returned, the
\* table holds exactly one dose event per generated occurrence of every
\* completed window and nothing else: what a single run leaves.
C3_RacingRunsLeaveOneEventEach ==
  (\A r \in Runners : run[r].pc = "idle") =>
     /\ \A ws \in completed : \A k \in SweepKeys(ws) :
          Cardinality(RowsAt(k[1], k[2])) = 1
     /\ \A e \in events : \E ws \in completed : <<e.med, e.time>> \in SweepKeys(ws)

\* two runs over the same window have both returned, and one of them lost
\* a race between its SELECT and its INSERT
C3_Witness ==
  /\ \A r \in Runners : run[r].pc = "idle" /\ run[r].ws \in completed
  /\ run[1].ws = run[2].ws
  /\ budget.runs = MaxRuns - 2
  /\ conflicts > 0

\* C4: a dose event that is taken or skipped is never changed again.
C4_TerminalEventsFrozen ==
  [][\A e \in events : e.status \in {"taken", "skipped"} => e \in events']_vars

\* a snooze request answered in this step
SnoozeStep == budget'.snooze < budget.snooze /\ resp'.op = "snooze"

\* the dose event a snooze request by a household member names
SnoozeTarget == EventOf(resp'.id)
SnoozeReachesRow == resp'.id \in EventIds /\ resp'.code # 403

\* C5 as stated: a snooze of a due event by a user with access moves it by
\* exactly 15 minutes, keeps it due and changes no other dose event.
C5_SnoozeMovesDueEvent ==
  [][(SnoozeStep /\ SnoozeReachesRow /\ SnoozeTarget.status = "due") =>
       events' = (events \ {SnoozeTarget}) \cup
                 {[SnoozeTarget EXCEPT !.time = @ + SnoozeMinutes]}]_vars

\* C5 amended: the move happens unless another dose event of the same
\* medication is scheduled at the old time plus 15 minutes; then the request
\* is answered 500 and no dose event changes.
C5_SnoozeMovesDueEventUnlessTaken ==
  [][(SnoozeStep /\ SnoozeReachesRow /\ SnoozeTarget.status = "due") =>
       IF \E o \in events : /\ o.id # SnoozeTarget.id
                            /\ o.med = SnoozeTarget.med
                            /\ o.time = SnoozeTarget.time + SnoozeMinutes
         THEN events' = events /\ resp'.code = 500
         ELSE /\ resp'.code = 200
              /\ events' = (events \ {SnoozeTarget}) \cup
                           {[SnoozeTarget EXCEPT !.time = @ + SnoozeMinutes]}]_vars

\* a due dose event has just been snoozed once, 15 minutes past the instant
\* it was materialized at
C5_Witness ==
  /\ resp.op = "snooze" /\ resp.code = 200
  /\ \E e \in events : /\ e.id = resp.id /\ e.status = "due"
                       /\ e.time = e.id[2] + SnoozeMinutes

\* C6: a snooze of a taken or skipped dose event is answered with an error
\* and leaves the dose events as they were.
C6_SnoozeOfResolvedRejected ==
  [][(SnoozeStep /\ SnoozeReachesRow /\ SnoozeTarget.status \in {"taken", "skipped"}) =>
       (resp'.code # 200 /\ events' = events)]_vars

\* C7: a dose event is created due and without a log reference, and its
\* status only ever changes from due to taken or from due to skipped.
C7_StatusMachine ==
  [][/\ \A f \in events' : f.id \notin EventIds => (f.status = "due" /\ f.log = NoLog)
     /\ \A e \in events : \A f \in events' :
          (e.id = f.id /\ e.status # f.status) =>
             (e.status = "due" /\ f.status \in {"taken", "skipped"})]_vars

\* a materialized dose event has been taken through a logged dose
C7_Witness ==
  \E e \in events : e.status = "taken" /\ e.log # NoLog /\ \E l \in logs : l.id = e.log

\* C8: no dose event is ever materialized for an as-needed medication.
C8_AsNeededNeverMaterialized ==
  \A e \in events : ~meds[e.med].prn

\* C9: a dose event that is due and was never snoozed has had at most one
\* reminder and at most one overdue notification dispatched per caregiver.
C9_NotifiedAtMostOnce ==
  \A e \in events :
    (e.status = "due" /\ e.time = e.id[2]) =>
       \A k \in DOMAIN sent : k[2] = e.id => sent[k] <= 1

\* a logged-dose request by a household member answered in this step, and
\* the medication_log row it stored
LogStep == budget'.log < budget.log /\ resp'.op = "log" /\ resp'.code # 404
LoggedRow == CHOOSE l \in logs' : l \notin logs

Distance(a, b) == IF a >= b THEN a - b ELSE b - a

\* the due dose events of the day nearest to the administration time
NearestDue(m, at) ==
  LET due == {e \in events : e.med = m /\ e.status = "due" /\ DateOf(e.time) = DateOf(at)}
  IN  {e \in due : \A o \in due : Distance(e.time, at) <= Distance(o.time, at)}

\* C10: a logged dose for a medication with a due dose event matching the
\* administration time turns exactly one such event into taken, with the
\* new log entry as its reference, and changes no other dose event.
C10_LogTakesTheMatchingDueEvent ==
  [][(LogStep /\ NearestDue(LoggedRow.med, LoggedRow.time) # {}) =>
       \E e \in NearestDue(LoggedRow.med, LoggedRow.time) :
         events' = (events \ {e}) \cup
                   {[e EXCEPT !.status = "taken", !.log = LoggedRow.id]}]_vars

\* the dose events of the medication, of any status, on the day of the
\* administration time and nearest to it: the events a logged dose is against
NearestEvent(m, at) ==
  LET day == {e \in events : e.med = m /\ DateOf(e.time) = DateOf(at)}
  IN  {e \in day : \A o \in day : Distance(e.time, at) <= Distance(o.time, at)}

\* C11: a logged dose against a dose event that an earlier logged dose has
\* already turned into taken is answered with an error, and no dose event
\* changes: no log entry is attached to any event.
C11_SecondLogRejected ==
  [][(LogStep /\ \E e \in NearestEvent(LoggedRow.med, LoggedRow.time) :
                    e.status = "taken" /\ e.log # NoLog) =>
       (resp'.code >= 400 /\ events' = events)]_vars

\* a sweep of runner 1 starts in this step; the timestamps it hands to
\* createDoseEventIfNotExists for medication m, in order
SweepStarts == budget'.runs < budget.runs /\ run[1].pc = "idle"
EmittedFor(m) ==
  LET q   == run'[1].queue
      Of(k) == k[1] = m
      sel == SelectSeq(q, Of)
  IN  [i \in 1..Len(sel) |-> sel[i][2]]
WindowStart == run'[1].ws
WindowEnd   == run'[1].we

Listed(m) == m \in DOMAIN meds /\ meds[m].active
FixedMode(m) == meds[m].times_of_day # NoTimes /\ meds[m].times_of_day # <<>>
Max(a, b) == IF a >= b THEN a ELSE b
Min(a, b) == IF a <= b THEN a ELSE b
SeqSet(q) == {q[i] : i \in 1..Len(q)}

\* the first and the last instant of the medication's active window
ActiveStart(m) == meds[m].start_date * Day
InActiveWindow(m, t) ==
  /\ t >= ActiveStart(m)
  /\ meds[m].end_date # NoDate => t < (meds[m].end_date + 1) * Day

\* C12: every timestamp a sweep emits lies within the sweep's window and
\* within the medication's active window: none after a bounded end_date,
\* none when the two windows do not overlap.
C12_EmittedWithinWindows ==
  [][SweepStarts =>
       \A m \in MedIds : \A t \in SeqSet(EmittedFor(m)) :
         /\ WindowStart <= t /\ t <= WindowEnd
         /\ InActiveWindow(m, t)]_vars

\* weekday of calendar day d, 0 = Monday: day 0 is Monday 2024-01-01
WeekdayOf(d) == d % 7

\* the timestamps a fixed-time schedule prescribes on calendar day d between
\* the instants from and to
PrescribedOn(m, d, from, to) ==
  IF meds[m].byweekday # {} /\ WeekdayOf(d) \notin meds[m].byweekday
    THEN {}
    ELSE {t \in {d * Day + tod[1] * Hour + tod[2] :
                   tod \in SeqSet(meds[m].times_of_day)} : from <= t /\ t <= to}

\* C13: for a fixed-time schedule the sweep emits, on every calendar day of
\* the window, nothing when the weekday filter excludes the day and
\* otherwise exactly one timestamp per timesOfDay entry inside the window,
\* and nothing else; two times on Mon/Wed/Fri over one week give 6.
C13_FixedTimesPerDay ==
  [][SweepStarts =>
       \A m \in MedIds :
         (Listed(m) /\ FixedMode(m) /\ meds[m].end_date = NoDate) =>
           LET seq  == EmittedFor(m)
               from == Max(ActiveStart(m), WindowStart)
               days == DateOf(WindowStart)..DateOf(WindowEnd)
           IN  /\ \A d \in days :
                    {t \in SeqSet(seq) : DateOf(t) = d} =
                      PrescribedOn(m, d, from, WindowEnd)
               /\ \A t \in SeqSet(seq) : DateOf(t) \in days
               /\ \A i, j \in 1..Len(seq) : seq[i] = seq[j] => i = j
               /\ ( /\ Len(meds[m].times_of_day) = 2
                    /\ meds[m].byweekday = {0, 2, 4}
                    /\ WindowEnd - WindowStart = 7 * Day
                    /\ ActiveStart(m) <= WindowStart ) => Len(seq) = 6]_vars

\* a sweep over one week for the Mon/Wed/Fri schedule has returned and left
\* its six dose events
C13_Witness ==
  /\ meds[1] = MonWedFri
  /\ run[1].pc = "idle" /\ run[1].ws \in completed
  /\ run[1].we - run[1].ws = 7 * Day
  /\ Cardinality({e \in events : e.med = 1}) = 6
  /\ \A e \in events : e.med = 1 => WeekdayOf(DateOf(e.time)) \in {0, 2, 4}

IntervalMode(m) == ~FixedMode(m)

\* calendar month addition: the same day number of the target month, or its
\* last day when the target month is shorter
CalendarMonthPlus(t, q) ==
  LET target == GetMonth(t) + q
      day    == Min(GetDate(t), DaysInMonth(target))
  IN  (MonthStart(target) + day - 1) * Day + TimeOfDay(t)

\* t plus qty of unit: elapsed time for minutes, hours, days and weeks,
\* calendar months for months
ExactPlus(t, qty, unit) ==
  CASE unit = "minutes" -> t + qty
    [] unit = "hours"   -> t + qty * 60
    [] unit = "days"    -> t + qty * 24 * 60
    [] unit = "weeks"   -> t + qty * 7 * 24 * 60
    [] unit = "months"  -> CalendarMonthPlus(t, qty)

\* C14: for an interval schedule with intervalQuantity >= 1, any two
\* consecutive timestamps of one sweep differ by exactly intervalQuantity
\* of intervalUnit.
C14_IntervalSpacing ==
  [][SweepStarts =>
       \A m \in MedIds :
         (Listed(m) /\ IntervalMode(m) /\ meds[m].interval_qty >= 1) =>
           LET seq == EmittedFor(m)
           IN  \A i \in 1..(Len(seq) - 1) :
                 seq[i + 1] = ExactPlus(seq[i], meds[m].interval_qty,
                                        meds[m].interval_unit)]_vars

\* sweeps have returned that left consecutive dose events of a monthly
\* schedule, one calendar month apart
C14_Witness ==
  /\ run[1].pc = "idle" /\ run[1].ws \in completed
  /\ \E m \in MedIds :
       /\ meds[m].interval_unit = "months" /\ IntervalMode(m)
       /\ \E e1, e2 \in events :
            /\ e1.med = m /\ e2.med = m
            /\ e2.time = CalendarMonthPlus(e1.time, meds[m].interval_qty)

\* the sweep window meets the medication's active window
Overlaps(m) ==
  /\ ActiveStart(m) <= WindowEnd
  /\ meds[m].end_date # NoDate => (meds[m].end_date + 1) * Day > WindowStart

ElapsedUnits == {"minutes", "hours", "days", "weeks"}

\* C15: interval generation is inclusive at both ends: the first timestamp
\* is the generation start, and the window end is emitted when the grid
\* reaches it; every 8 hours from the window start over 24 hours gives the
\* 4 timestamps +0h, +8h, +16h and +24h.
C15_IntervalInclusiveEnds ==
  [][SweepStarts =>
       \A m \in MedIds :
         (Listed(m) /\ IntervalMode(m) /\ meds[m].interval_qty >= 1 /\ Overlaps(m)) =>
           LET seq  == EmittedFor(m)
               from == Max(ActiveStart(m), WindowStart)
               step == ExactPlus(0, meds[m].interval_qty, meds[m].interval_unit)
           IN  /\ Len(seq) > 0 /\ seq[1] = from
               /\ ( meds[m].interval_unit \in ElapsedUnits
                    /\ (WindowEnd - from) % step = 0 ) => seq[Len(seq)] = WindowEnd
               /\ ( /\ meds[m].interval_qty = 8 /\ meds[m].interval_unit = "hours"
                    /\ from = WindowStart
                    /\ WindowEnd = WindowStart + 24 * 60 ) =>
                   seq = <<WindowStart, WindowStart + 8 * 60,
                           WindowStart + 16 * 60, WindowStart + 24 * 60>>]_vars

\* a sweep over 24 hours for an 8-hourly schedule has returned and left dose
\* events at the window start, 8 and 16 hours later, and at the window end
C15_Witness ==
  /\ meds[1].interval_qty = 8 /\ meds[1].interval_unit = "hours"
  /\ run[1].pc = "idle" /\ run[1].ws \in completed
  /\ run[1].we = run[1].ws + Day
  /\ {e.time : e \in {x \in events : x.med = 1}} =
       {run[1].ws, run[1].ws + 8 * Hour, run[1].ws + 16 * Hour, run[1].we}

\* C20: the month addition the interval loop applies to each timestamp it
\* emits yields the same day number of the target month, clamped to the
\* last day of that month, never a date in the month after it.
C20_MonthAdditionClamped ==
  [][SweepStarts =>
       \A m \in MedIds :
         (Listed(m) /\ IntervalMode(m) /\ meds[m].interval_unit = "months"
                    /\ meds[m].interval_qty >= 1) =>
           \A t \in SeqSet(EmittedFor(m)) :
             LET next == AddInterval(t, meds[m].interval_qty, meds[m].interval_unit)
             IN  /\ next = CalendarMonthPlus(t, meds[m].interval_qty)
                 /\ GetMonth(next) = GetMonth(t) + meds[m].interval_qty]_vars

\* the dose events inserted in this step
Inserted == {f \in events' : f.id \notin EventIds}

\* C16: no dose event is inserted for a medication that is inactive at the
\* moment of the insert, also when the update route deactivates it while a
\* sweep that listed it as active is still running.
C16_NoInsertForInactive ==
  [][\A f \in Inserted : f.med \in DOMAIN meds /\ meds[f.med].active]_vars

\* an update request answered in this step
UpdateStep == budget'.edit < budget.edit /\ resp'.op = "update"

\* C17: an update of a medication, of its schedule fields or of active,
\* leaves every dose event as it was: none deleted, none altered.
C17_UpdateKeepsDoseEvents ==
  [][UpdateStep => events' = events]_vars

\* an update has just deactivated a medication that has dose events, or
\* changed the schedule of one, and the events are still there
C17_Witness ==
  /\ resp.op = "update" /\ resp.code = 200
  /\ \E e \in events : e.med = resp.id[1]
  /\ \/ ~meds[resp.id[1]].active
     \/ meds[resp.id[1]].interval_unit = "weeks"

\* C18: a sweep emits no timestamp for a medication whose stored timesOfDay
\* is present but empty: such a schedule is invalid input and is never
\* generated as an interval schedule.
C18_EmptyTimesNeverInterval ==
  [][SweepStarts =>
       \A m \in DOMAIN meds :
         meds[m].times_of_day = <<>> => EmittedFor(m) = <<>>]_vars

\* C19: every stored medication has intervalQuantity >= 1, and start_date
\* no later than end_date when end_date is set: a request that breaks this
\* is rejected and stores nothing.
C19_StoredSchedulesValid ==
  \A m \in DOMAIN meds :
    /\ meds[m].interval_qty >= 1
    /\ meds[m].end_date # NoDate => meds[m].start_date <= meds[m].end_date

\* C21: creating a dose event is one atomic insert-if-absent step: no sweep
\* ever attempts an INSERT that the unique constraint rejects.
C21_NoInsertHitsConstraint == conflicts = 0

\* C22: once the dose event materialized for an occurrence instant of a
\* medication is taken or skipped, no sweep creates another dose event for
\* that occurrence, whether or not the event was snoozed before.
C22_ResolvedOccurrenceNotRecreated ==
  [][\A f \in Inserted :
       ~\E e \in events : /\ e.med = f.med
                          /\ e.id[2] = f.time
                          /\ e.status \in {"taken", "skipped"}]_vars

\* the dose events of medication m that were never snoozed
NeverSnoozed(m) == {e \in events : e.med = m /\ e.time = e.id[2]}

\* C23: over any number of daily sweeps, the never-snoozed dose events of an
\* interval medication with an unchanged schedule lie on one grid: any two
\* of them are a whole multiple of the interval apart, so no sweep adds an
\* event between existing ones.
C23_OneGrid ==
  \A m \in DOMAIN meds :
    (IntervalMode(m) /\ meds[m].interval_unit \in ElapsedUnits
                     /\ meds[m].interval_qty >= 1) =>
      \A e1, e2 \in NeverSnoozed(m) :
        (e1.time - e2.time) %
          ExactPlus(0, meds[m].interval_qty, meds[m].interval_unit) = 0

\* a logged-dose request answered in this step, whatever the answer
LogAnswered == budget'.log < budget.log /\ resp'.op = "log"

\* C30: a logged dose is all-or-nothing: answered with an error, it has
\* added no log row and changed no dose event; answered with success, its
\* log row exists and a matching due event, if there was one, is taken and
\* references that row.
C30_LogAllOrNothing ==
  [][LogAnswered =>
       IF resp'.code >= 400
         THEN logs' = logs /\ events' = events
         ELSE /\ logs' # logs
              /\ LogMatches(LoggedRow.med, LoggedRow.time) # {} =>
                   \E e \in LogMatches(LoggedRow.med, LoggedRow.time) :
                     [e EXCEPT !.status = "taken", !.log = LoggedRow.id] \in events']_vars

\* the dose events materialized for the occurrence of medication m at t
MaterializedFor(m, t) == {e \in events : e.med = m /\ e.id[2] = t}

\* C24: for an active medication with fixed times, every occurrence of the
\* schedule after the medication's creation and inside its active window
\* has a dose event in the store by the occurrence's scheduled instant.
C24_RunwayCovered ==
  \A m \in DOMAIN meds :
    (meds[m].active /\ FixedMode(m)) =>
      \A d \in DateOf(meds[m].created_at)..DateOf(now) :
        \A t \in PrescribedOn(m, d, meds[m].created_at + 1, now) :
          InActiveWindow(m, t) => MaterializedFor(m, t) # {}

\* the number of dispatches recorded under key k
Count(s, k) == IF k \in DOMAIN s THEN s[k] ELSE 0

\* this step is one run of the reminder sweep, or of the overdue sweep
ReminderSweep == "reminders" \in fired' /\ "reminders" \notin fired
OverdueSweep == "overdue" \in fired' /\ "overdue" \notin fired

\* this step dispatches once more under key k
DispatchedNow(k) == Count(sent', k) = Count(sent, k) + 1

\* C25: a reminder sweep at the instant now dispatches a reminder for every
\* due dose event scheduled within [now, now + 15 minutes] that has not been
\* reminded yet, whether or not its medication is still active.
C25_EveryDueEventReminded ==
  [][ReminderSweep =>
       \A e \in events, u \in Members :
         (/\ e.status = "due"
          /\ e.time >= now /\ e.time <= now + ReminderLead
          /\ Count(sent, <<"reminder", e.id, u>>) = 0) =>
            Count(sent', <<"reminder", e.id, u>>) >= 1]_vars

\* the due dose events of active medications that snooze has moved
SnoozedDue ==
  {e \in events : e.status = "due" /\ e.time # e.id[2] /\ meds[e.med].active}

FailedNow == {k \in DOMAIN sent' : Count(sent', Failure(k)) > Count(sent, Failure(k))}

\* C27: a rejected delivery for one joined row does not stop the sweep:
\* every row the query returns gets its dispatch in the same sweep, and a
\* row whose delivery was rejected before gets a dispatch again in every
\* later sweep whose query still returns it.
C27_FailureDoesNotStopSweep ==
  [][/\ ReminderSweep =>
          \A k \in ReminderKeys :
            (FailedNow # {} \/ Count(sent, Failure(k)) > 0) => DispatchedNow(k)
     /\ OverdueSweep =>
          \A k \in OverdueKeys :
            (FailedNow # {} \/ Count(sent, Failure(k)) > 0) => DispatchedNow(k)]_vars

\* a reminder whose delivery was rejected, dispatched again by a later
\* sweep, next to another dose event that was reminded
C27_Witness ==
  \E k, j \in DOMAIN sent :
    /\ k[1] = "reminder" /\ j[1] = "reminder" /\ k[2] # j[2]
    /\ Count(sent, Failure(k)) >= 1
    /\ sent[k] >= 2
    /\ sent[j] >= 1

\* C28: an error raised for one medication does not abort the sweep: when
\* the sweep has returned, every occurrence of every other listed
\* medication has its dose event.
C28_ErrorDoesNotAbortSweep ==
  run[1].pc = "idle" =>
    \A ws \in completed : \A k \in SweepKeys(ws) :
      k[1] \notin FailingMeds => RowsAt(k[1], k[2]) # {}

\* a sweep has returned after a rejected query cost the first medication a
\* dose event, and the medication listed after it has its own
C28_Witness ==
  /\ run[1].pc = "idle"
  /\ budget.fail < MaxFailures
  /\ \E ws \in completed : \E k, j \in SweepKeys(ws) :
       /\ k[1] \in FailingMeds /\ RowsAt(k[1], k[2]) = {}
       /\ j[1] \notin FailingMeds /\ RowsAt(j[1], j[2]) # {}

\* C29: a sweep that has started returns, whatever schedules the routes
\* have stored.
C29_SweepTerminates == (run[1].pc # "idle") ~> (run[1].pc = "idle")

====
